---- MODULE Spec2Model ----
(***************************************************************************)
(* Model of GameDataManager (src/src/game_data.py): the catalog scan, the  *)
(* manifest matcher and rewriter, and the backup / restore / move / relink *)
(* operations over a small file system.                                    *)
(*                                                                         *)
(* A file name is the sequence of its dot-separated segments               *)
(* ("GameA.manifest2" is <<"GameA", "manifest2">>); a path is the sequence *)
(* of the names on it; os.path.join appends a name to a path.  The file    *)
(* system is a function from the paths that exist to their nodes.          *)
(***************************************************************************)
EXTENDS Integers, Sequences, FiniteSets, TLC

VARIABLES
    fs,          \* the file system: path -> node
    enumOrder,   \* the order in which os.scandir yields names
    catalog,     \* self._game_data_list
    pc,          \* position of the running operation
    status,      \* "running" | "exit0" | "exit1" | "crashed"
    op,          \* the operation begun last
    opCount,     \* operations begun in this invocation
    gate,        \* the operator's answer at the last gate
    fs0,         \* the file system when the last operation began
    selected,    \* selected_games_list
    dest,        \* destination_path, <<>> until it is asked
    index,       \* index of the selected game (move) or catalog game (relink)
    mi,          \* index of the game manifest in the inner loop
    blist,       \* backed_up_launcher_manifest_list
    found_all,   \* found_all_manifests
    matching     \* matching_launcher_manifest, NoEntry for None

vars == <<fs, enumOrder, catalog, pc, status, op, opCount, gate, fs0,
          selected, dest, index, mi, blist, found_all, matching>>

(* ------------------------------ bounds --------------------------------- *)

\* operations one invocation of the program begins
MaxOps == 3
\* games the operator selects in one move
MaxSelected == 2
\* launcher manifests in a list handed to the matcher on its own
MaxList == 3
\* how many times one manifest is rewritten in a row
MaxRewrites == 2

(* ------------------------- class constants ----------------------------- *)

MANIFEST_BACKUP_FOLDER_NAME == <<"_MANIFEST_BACKUPS">>
GAME_MANIFEST_FOLDER_NAME == <<".egstore">>
GAME_MANIFEST_FILE_TYPE == "manifest"
LAUNCHER_MANIFEST_FILE_TYPE == "item"
STAGING_FOLDER_NAME == <<"bps">>
SUPPORTED_LAUNCHER_MANIFEST_VERSIONS == {0}

(* ------------------------- names and paths ----------------------------- *)

\* os.path.join(path, name)
Join(path, name) == Append(path, name)

\* os.path.basename(path)
Basename(path) == path[Len(path)]

\* FileDirectory(name, path)
FileDirectory(name, path) == [name |-> name, path |-> path]

\* FileDirectory.get_name_raw: the name without its extension
get_name_raw(entry) ==
    IF Len(entry.name) > 1
    THEN SubSeq(entry.name, 1, Len(entry.name) - 1)
    ELSE entry.name

\* a segment that follows a dot begins with the marker
SegmentStartsWith(segment, marker) ==
    \/ segment = marker
    \/ <<segment, marker>> \in {<<"manifest2", "manifest">>, <<"item2", "item">>}

\* marker in name, for a marker "." + type
NameContains(name, type) ==
    \E i \in 2..Len(name) : SegmentStartsWith(name[i], type)

(* --------------------------- file system ------------------------------- *)

DirNode == [kind |-> "dir", data |-> <<>>]
FileNode(data) == [kind |-> "file", data |-> data]

Exists(f, path) == path \in DOMAIN f
IsDir(f, path) == Exists(f, path) /\ f[path].kind = "dir"
IsFile(f, path) == Exists(f, path) /\ f[path].kind = "file"

IsPrefix(p, q) == Len(p) <= Len(q) /\ SubSeq(q, 1, Len(p)) = p

\* the paths at or below path
Subtree(f, path) == {q \in DOMAIN f : IsPrefix(path, q)}

\* os.scandir(folder): the entries of folder, in enumeration order
ScanDir(f, order, folder) ==
    LET here == SelectSeq(order, LAMBDA n : Exists(f, Join(folder, n)))
    IN  [i \in 1..Len(here) |->
            [name |-> here[i],
             path |-> Join(folder, here[i]),
             is_dir |-> IsDir(f, Join(folder, here[i])),
             is_file |-> IsFile(f, Join(folder, here[i]))]]

\* FileManagement.try_create_dir: create the folder unless it exists
try_create_dir(f, path) ==
    IF Exists(f, path) THEN f ELSE (path :> DirNode) @@ f

\* shutil.copy2(src, folder): copy the file into folder, replacing a file of that name
Copy2(f, src, folder) ==
    LET dst == Join(folder, Basename(src))
    IN  [q \in (DOMAIN f) \cup {dst} |-> IF q = dst THEN f[src] ELSE f[q]]

\* shutil.move(src, folder) raises when src is missing or folder/basename(src) exists
MoveRaises(f, src, folder) ==
    \/ ~Exists(f, src)
    \/ Exists(f, Join(folder, Basename(src)))

\* shutil.move(src, folder): rename src, with all below it, to folder/basename(src)
ShutilMove(f, src, folder) ==
    LET dst == Join(folder, Basename(src))
        Moved(q) == dst \o SubSeq(q, Len(src) + 1, Len(q))
        gone == Subtree(f, src)
        kept == (DOMAIN f) \ gone
        back(q) == CHOOSE r \in gone : Moved(r) = q
    IN  [q \in kept \cup {Moved(r) : r \in gone} |->
            IF q \in kept THEN f[q] ELSE f[back(q)]]

(* --------------------------- the manager ------------------------------- *)

\* None, as a FileDirectory
NoEntry == FileDirectory(<<>>, <<>>)

GameData(game_folder, manifest_folder, manifest_file_list) ==
    [game_folder |-> game_folder,
     manifest_folder |-> manifest_folder,
     manifest_file_list |-> manifest_file_list]

\* the content of a launcher manifest
Manifest(version, location, app) ==
    [FormatVersion |-> version,
     InstallLocation |-> location,
     ManifestLocation |-> Join(location, GAME_MANIFEST_FOLDER_NAME),
     StagingLocation |-> Join(Join(location, GAME_MANIFEST_FOLDER_NAME), STAGING_FOLDER_NAME),
     AppName |-> app]

is_valid_game_folder(f, entry) ==
    entry.is_dir /\ Exists(f, Join(entry.path, GAME_MANIFEST_FOLDER_NAME))

is_valid_launcher_manifest_file(entry) ==
    entry.is_file /\ NameContains(entry.name, LAUNCHER_MANIFEST_FILE_TYPE)

is_valid_game_manifest_file(entry) ==
    entry.is_file /\ NameContains(entry.name, GAME_MANIFEST_FILE_TYPE)

\* the entries of a scan as FileDirectory values
AsFileDirectories(entries) ==
    [i \in 1..Len(entries) |-> FileDirectory(entries[i].name, entries[i].path)]

get_launcher_manifest_files(f, order, launcher_manifest_folder) ==
    AsFileDirectories(SelectSeq(ScanDir(f, order, launcher_manifest_folder),
                                is_valid_launcher_manifest_file))

\* a scan that admits a game folder whose manifest subfolder has no manifest file
get_game_data_list_admits_empty(f, order, games_root) ==
    LET manifest_folder_path(e) == Join(e.path, GAME_MANIFEST_FOLDER_NAME)
        manifest_file_list(e) ==
            AsFileDirectories(SelectSeq(ScanDir(f, order, manifest_folder_path(e)),
                                        is_valid_game_manifest_file))
        admitted == SelectSeq(ScanDir(f, order, games_root),
                              LAMBDA e : is_valid_game_folder(f, e))
    IN  [i \in 1..Len(admitted) |->
            GameData(FileDirectory(admitted[i].name, admitted[i].path),
                     FileDirectory(GAME_MANIFEST_FOLDER_NAME, manifest_folder_path(admitted[i])),
                     manifest_file_list(admitted[i]))]

get_game_data_list(f, order, games_folder) ==
    LET manifest_folder_path(e) == Join(e.path, GAME_MANIFEST_FOLDER_NAME)
        manifest_file_list(e) ==
            AsFileDirectories(SelectSeq(ScanDir(f, order, manifest_folder_path(e)),
                                        is_valid_game_manifest_file))
        admitted == SelectSeq(ScanDir(f, order, games_folder),
                              LAMBDA e : /\ is_valid_game_folder(f, e)
                                         /\ Len(manifest_file_list(e)) # 0)
    IN  [i \in 1..Len(admitted) |->
            GameData(FileDirectory(admitted[i].name, admitted[i].path),
                     FileDirectory(GAME_MANIFEST_FOLDER_NAME, manifest_folder_path(admitted[i])),
                     manifest_file_list(admitted[i]))]

\* a matcher that returns the last launcher manifest of the raw name
get_matching_launcher_manifest_last(game_manifest, launcher_manifest_file_list) ==
    LET hits == SelectSeq(launcher_manifest_file_list,
                          LAMBDA lm : get_name_raw(game_manifest) = get_name_raw(lm))
    IN  IF Len(hits) = 0 THEN NoEntry ELSE hits[Len(hits)]

get_matching_launcher_manifest(game_manifest, launcher_manifest_file_list) ==
    LET hits == SelectSeq(launcher_manifest_file_list,
                          LAMBDA lm : get_name_raw(game_manifest) = get_name_raw(lm))
    IN  IF Len(hits) = 0 THEN NoEntry ELSE hits[1]

\* a version check that lets every version through
assert_manifest_is_supported_any(format_version) ==
    format_version \in Int

\* assert_manifest_is_supported: TRUE when it returns, FALSE when it exits
assert_manifest_is_supported(format_version) ==
    format_version \in SUPPORTED_LAUNCHER_MANIFEST_VERSIONS

\* how update_manifest_location_references ends on launcher_manifest:
\* open() or json.load raise, the version check exits, or the file is written
RewriteEnds(f, launcher_manifest) ==
    IF ~IsFile(f, launcher_manifest.path) \/ f[launcher_manifest.path].data = <<>>
    THEN "crashed"
    ELSE IF ~assert_manifest_is_supported(f[launcher_manifest.path].data[1].FormatVersion)
         THEN "exit1"
         ELSE "running"

\* a rewrite that derives the manifest location from the install location read
update_manifest_location_references_from_read(f, launcher_manifest, updated_game_folder) ==
    LET data == f[launcher_manifest.path].data[1]
        manifest_location == Join(data.InstallLocation, GAME_MANIFEST_FOLDER_NAME)
        staging_location == Join(manifest_location, STAGING_FOLDER_NAME)
    IN  [f EXCEPT ![launcher_manifest.path] =
            FileNode(<<[data EXCEPT !.InstallLocation = updated_game_folder,
                                    !.ManifestLocation = manifest_location,
                                    !.StagingLocation = staging_location]>>)]

\* a rewrite that writes a document of the required keys only
update_manifest_location_references_required_only(f, launcher_manifest, updated_game_folder) ==
    LET data == f[launcher_manifest.path].data[1]
        manifest_location == Join(updated_game_folder, GAME_MANIFEST_FOLDER_NAME)
        staging_location == Join(manifest_location, STAGING_FOLDER_NAME)
    IN  [f EXCEPT ![launcher_manifest.path] =
            FileNode(<<[FormatVersion |-> data.FormatVersion,
                        InstallLocation |-> updated_game_folder,
                        ManifestLocation |-> manifest_location,
                        StagingLocation |-> staging_location]>>)]

\* the file system after update_manifest_location_references has written the file
update_manifest_location_references(f, launcher_manifest, updated_game_folder) ==
    LET data == f[launcher_manifest.path].data[1]
        manifest_location == Join(updated_game_folder, GAME_MANIFEST_FOLDER_NAME)
        staging_location == Join(manifest_location, STAGING_FOLDER_NAME)
    IN  [f EXCEPT ![launcher_manifest.path] =
            FileNode(<<[data EXCEPT !.InstallLocation = updated_game_folder,
                                    !.ManifestLocation = manifest_location,
                                    !.StagingLocation = staging_location]>>)]

(* ------------------------- the initial disk ---------------------------- *)

\* __init__: games_folder, launcher_manifest_folder, and the backup folder derived from them
games_folder == << <<"Games">> >>
launcher_manifest_folder == << <<"Manifests">> >>
manifest_backup_folder == Join(games_folder, MANIFEST_BACKUP_FOLDER_NAME)

\* the paths the operator may type as a destination: the games root itself, an
\* existing folder, a folder that does not exist, and the launcher root
ExistingDestination == << <<"D">> >>
MissingDestination == << <<"Nowhere">> >>
DestinationInputs == {games_folder, ExistingDestination, MissingDestination, launcher_manifest_folder}

\* where the launcher manifests point before any relink
OldLibrary == << <<"Old">> >>

GameA == <<"GameA">>
GameB == <<"GameB", "v2">>
GameC == <<"GameC">>
GameD == <<"GameD">>
Tools == <<"Tools">>

\* every name a folder of the model may hold, in one enumeration order
AllNames ==
    << GameA, GameB, GameC, GameD, Tools, <<"readme", "txt">>,
       MANIFEST_BACKUP_FOLDER_NAME, GAME_MANIFEST_FOLDER_NAME, STAGING_FOLDER_NAME,
       <<"GameA", "manifest">>, <<"GameA", "manifest2">>, <<"GameB", "manifest">>,
       <<"C1", "manifest">>, <<"C2", "manifest">>, <<"notes", "txt">>,
       <<"GameA", "item">>, <<"GameB", "item">>, <<"C1", "item">>, <<"C2", "item">> >>

Reverse(s) == [i \in 1..Len(s) |-> s[Len(s) + 1 - i]]

EnumerationOrders == {AllNames, Reverse(AllNames)}

\* a function from a set of <<path, node>> pairs
Disk(pairs) == [q \in {pr[1] : pr \in pairs} |-> (CHOOSE pr \in pairs : pr[1] = q)[2]]

\* an installed game: its folder, its manifest subfolder and the files in it
Install(root, game, files) ==
    {<<Join(root, game), DirNode>>,
     <<Join(Join(root, game), GAME_MANIFEST_FOLDER_NAME), DirNode>>}
    \cup {<<Join(Join(Join(root, game), GAME_MANIFEST_FOLDER_NAME), n), FileNode(<<>>)>> :
             n \in files}

\* the games root: three games, an incomplete install, a folder that is no
\* game and a stray file
GamesRootPairs ==
    {<<games_folder, DirNode>>}
    \cup Install(games_folder, GameA, {<<"GameA", "manifest">>, <<"GameA", "manifest2">>})
    \cup Install(games_folder, GameB, {<<"GameB", "manifest">>})
    \cup Install(games_folder, GameC, {<<"C1", "manifest">>, <<"C2", "manifest">>, <<"notes", "txt">>})
    \cup {<<Join(Join(Join(games_folder, GameC), GAME_MANIFEST_FOLDER_NAME), STAGING_FOLDER_NAME), DirNode>>}
    \cup Install(games_folder, GameD, {})
    \cup {<<Join(games_folder, Tools), DirNode>>,
          <<Join(games_folder, <<"readme", "txt">>), FileNode(<<>>)>>}

\* the launcher manifests of the games, bad being the one of an unsupported version
LauncherItems(bad) ==
    LET item(name, game) ==
            <<name, FileNode(<<Manifest(IF name = bad THEN 7 ELSE 0,
                                        Join(OldLibrary, game), game[1])>>)>>
    IN  {item(<<"GameA", "item">>, GameA), item(<<"GameB", "item">>, GameB),
         item(<<"C1", "item">>, GameC), item(<<"C2", "item">>, GameC)}

ItemsIn(folder, items) == {<<Join(folder, it[1]), it[2]>> : it \in items}

LauncherRootPairs(bad) ==
    {<<launcher_manifest_folder, DirNode>>,
     <<Join(launcher_manifest_folder, <<"notes", "txt">>), FileNode(<<>>)>>}
    \cup ItemsIn(launcher_manifest_folder, LauncherItems(bad))

\* the backup folder an earlier invocation left: none, a full backup, or one
\* taken before the launcher knew C2.item
BackupPairs(backup, bad) ==
    CASE backup = "absent" -> {}
      [] backup = "full" ->
            {<<manifest_backup_folder, DirNode>>}
            \cup ItemsIn(manifest_backup_folder, LauncherItems(bad))
      [] backup = "partial" ->
            {<<manifest_backup_folder, DirNode>>}
            \cup ItemsIn(manifest_backup_folder,
                         {it \in LauncherItems(bad) : it[1] # <<"C2", "item">>})

\* the destination, with the folders it already holds
DestinationPairs(holds) ==
    {<<ExistingDestination, DirNode>>}
    \cup {<<Join(ExistingDestination, n), DirNode>> : n \in holds}

InitialDisk(backup, bad, holds) ==
    Disk(GamesRootPairs \cup LauncherRootPairs(bad) \cup BackupPairs(backup, bad)
         \cup DestinationPairs(holds))

InitialBackups == {"absent", "full", "partial"}
InitialBadItems == {<<>>, <<"GameB", "item">>, <<"C2", "item">>}
InitialDestinationHolds == {{}, {GameB}, {GameC}}

\* the launcher manifests the launcher root lacks: none, or the one of C2.manifest
InitialLauncherGaps == {{}, {<<"C2", "item">>}}

\* the disk f without the launcher manifests `names` of the launcher root
WithoutLauncherItems(f, names) ==
    [q \in (DOMAIN f) \ {Join(launcher_manifest_folder, n) : n \in names} |-> f[q]]

(* ------------------------ external collaborators ----------------------- *)

\* FileManagement.assert_path_exists: TRUE when it returns, FALSE when it exits
assert_path_exists(f, path) == Exists(f, path)

\* MenuCLI.yes_no_prompt: the answers the operator may give
yes_no_prompt == BOOLEAN

\* MenuCLI.list_prompt: the selections the operator may make of option_list
list_prompt(option_list) ==
    LET Pick(S) ==
            LET idx == SelectSeq([i \in 1..Len(option_list) |-> i], LAMBDA i : i \in S)
            IN  [k \in 1..Len(idx) |-> option_list[idx[k]]]
    IN  {Pick(S) : S \in {T \in SUBSET (1..Len(option_list)) : Cardinality(T) <= MaxSelected}}

(* ----------------------------- the state ------------------------------- *)

Init ==
    /\ \E backup \in InitialBackups, bad \in InitialBadItems, holds \in InitialDestinationHolds,
          gaps \in InitialLauncherGaps :
          fs = WithoutLauncherItems(InitialDisk(backup, bad, holds), gaps)
    /\ enumOrder \in EnumerationOrders
    /\ catalog = get_game_data_list(fs, enumOrder, games_folder)
    /\ pc = "idle"
    /\ status = "running"
    /\ op = "none"
    /\ opCount = 0
    /\ gate = "none"
    /\ fs0 = fs
    /\ selected = <<>>
    /\ dest = <<>>
    /\ index = 0
    /\ mi = 0
    /\ blist = <<>>
    /\ found_all = TRUE
    /\ matching = NoEntry

\* the menu offers an operation
Idle == pc = "idle" /\ status = "running" /\ opCount < MaxOps

\* the locals of an operation, out of scope
NoLocals ==
    /\ selected' = <<>>
    /\ dest' = <<>>
    /\ index' = 0
    /\ mi' = 0
    /\ blist' = <<>>
    /\ found_all' = TRUE
    /\ matching' = NoEntry

\* an operation that begins and ends in one step: sys.exit(code) at a gate, with f on disk
ExitAtGate(name, code, answer, f) ==
    /\ op' = name
    /\ opCount' = opCount + 1
    /\ status' = code
    /\ gate' = answer
    /\ fs0' = fs
    /\ fs' = f
    /\ pc' = "idle"
    /\ UNCHANGED <<enumOrder, catalog>>

\* an operation that has returned to the menu, with f on disk
Returned(f) ==
    /\ fs' = f
    /\ fs0' = f
    /\ pc' = "idle"
    /\ NoLocals
    /\ UNCHANGED <<enumOrder, catalog, status, op, opCount, gate>>

RECURSIVE AllManifests(_)
\* the game manifests of the games, in the order of the two nested loops
AllManifests(games) ==
    IF games = <<>> THEN <<>>
    ELSE Head(games).manifest_file_list \o AllManifests(Tail(games))

(* ------------------------------ backup --------------------------------- *)

RECURSIVE BackupEach_stops(_, _, _)
\* the loops of a backup that ends at the first game manifest without a match
BackupEach_stops(f, game_manifests, launcher_manifest_file_list) ==
    IF game_manifests = <<>> THEN f
    ELSE LET matching_launcher_manifest ==
                 get_matching_launcher_manifest(Head(game_manifests), launcher_manifest_file_list)
         IN  IF matching_launcher_manifest = NoEntry
             THEN f
             ELSE BackupEach_stops(Copy2(f, matching_launcher_manifest.path, manifest_backup_folder),
                                   Tail(game_manifests), launcher_manifest_file_list)

RECURSIVE BackupEach(_, _, _)
\* the loops of backup_manifests: copy the match of each game manifest
BackupEach(f, game_manifests, launcher_manifest_file_list) ==
    IF game_manifests = <<>> THEN f
    ELSE LET matching_launcher_manifest ==
                 get_matching_launcher_manifest(Head(game_manifests), launcher_manifest_file_list)
         IN  BackupEach(IF matching_launcher_manifest # NoEntry
                        THEN Copy2(f, matching_launcher_manifest.path, manifest_backup_folder)
                        ELSE f,
                        Tail(game_manifests), launcher_manifest_file_list)

\* the file system a confirmed backup_manifests leaves
BackupResult(f, order, games) ==
    BackupEach(try_create_dir(f, manifest_backup_folder),
               AllManifests(games),
               get_launcher_manifest_files(f, order, launcher_manifest_folder))

\* backup_manifests with the backup folder created before the operator is asked
backup_manifests_creates_first ==
    /\ Idle
    /\ \E answer \in yes_no_prompt :
          IF ~answer
          THEN /\ ExitAtGate("backup", "exit0", "no", try_create_dir(fs, manifest_backup_folder))
               /\ NoLocals
          ELSE /\ op' = "backup"
               /\ opCount' = opCount + 1
               /\ gate' = "yes"
               /\ fs' = BackupResult(fs, enumOrder, catalog)
               /\ fs0' = fs'
               /\ NoLocals
               /\ UNCHANGED <<enumOrder, catalog, pc, status>>

backup_manifests ==
    /\ Idle
    /\ \E answer \in yes_no_prompt :
          IF ~answer
          THEN ExitAtGate("backup", "exit0", "no", fs) /\ NoLocals
          ELSE /\ op' = "backup"
               /\ opCount' = opCount + 1
               /\ gate' = "yes"
               /\ fs' = BackupResult(fs, enumOrder, catalog)
               /\ fs0' = fs'
               /\ NoLocals
               /\ UNCHANGED <<enumOrder, catalog, pc, status>>

(* ------------------------------ restore -------------------------------- *)

RECURSIVE RestoreEach_keeps(_, _)
\* the loop of a restore that does not replace a file the launcher root holds
RestoreEach_keeps(f, entries) ==
    IF entries = <<>> THEN f
    ELSE RestoreEach_keeps(
             IF /\ is_valid_launcher_manifest_file(Head(entries))
                /\ ~Exists(f, Join(launcher_manifest_folder, Head(entries).name))
             THEN Copy2(f, Head(entries).path, launcher_manifest_folder)
             ELSE f,
             Tail(entries))

RECURSIVE RestoreEach(_, _)
\* the loop of restore_manifests: copy each valid launcher manifest of the backup folder
RestoreEach(f, entries) ==
    IF entries = <<>> THEN f
    ELSE RestoreEach(IF is_valid_launcher_manifest_file(Head(entries))
                     THEN Copy2(f, Head(entries).path, launcher_manifest_folder)
                     ELSE f,
                     Tail(entries))

\* the file system a confirmed restore_manifests leaves
RestoreResult(f, order) == RestoreEach(f, ScanDir(f, order, manifest_backup_folder))

\* restore_manifests without the check that the backup folder exists
restore_manifests_unchecked ==
    /\ Idle
    /\ NoLocals
    /\ \E answer \in yes_no_prompt :
          IF ~answer
          THEN ExitAtGate("restore", "exit0", "no", fs)
          ELSE /\ op' = "restore"
               /\ opCount' = opCount + 1
               /\ gate' = "yes"
               /\ fs' = RestoreResult(fs, enumOrder)
               /\ fs0' = fs'
               /\ UNCHANGED <<enumOrder, catalog, pc, status>>

restore_manifests ==
    /\ Idle
    /\ NoLocals
    /\ IF ~assert_path_exists(fs, manifest_backup_folder)
       THEN ExitAtGate("restore", "exit1", "none", fs)
       ELSE \E answer \in yes_no_prompt :
               IF ~answer
               THEN ExitAtGate("restore", "exit0", "no", fs)
               ELSE /\ op' = "restore"
                    /\ opCount' = opCount + 1
                    /\ gate' = "yes"
                    /\ fs' = RestoreResult(fs, enumOrder)
                    /\ fs0' = fs'
                    /\ UNCHANGED <<enumOrder, catalog, pc, status>>

(* ------------------------------- move ---------------------------------- *)

\* destination_backup_folder
destination_backup_folder(destination_path) ==
    Join(destination_path, MANIFEST_BACKUP_FOLDER_NAME)

\* new_game_folder_path
new_game_folder_path(destination_path, game) ==
    Join(destination_path, game.game_folder.name)

\* the path whose existence makes the loop skip the game
CollisionPath(destination_path, game) ==
    Join(destination_path, get_name_raw(game.game_folder))

\* a relocation that leaves the launcher manifest where it is
RelocateManifest_stays(f, launcher_manifest, destination_path) == f

\* shutil.move of the launcher manifest into the destination's backup folder
RelocateManifest(f, launcher_manifest, destination_path) ==
    ShutilMove(f, launcher_manifest.path, destination_backup_folder(destination_path))

\* a move of the game installation that leaves the source in place
MoveInstallation_copies(f, game, destination_path) ==
    LET moved == ShutilMove(f, game.game_folder.path, destination_path)
    IN  [q \in (DOMAIN f) \cup (DOMAIN moved) |-> IF q \in DOMAIN moved THEN moved[q] ELSE f[q]]

\* shutil.move of the game installation into the destination
MoveInstallation(f, game, destination_path) ==
    ShutilMove(f, game.game_folder.path, destination_path)

\* where the inner loop stands before manifest k of game
ManifestLoop(game, k) ==
    IF k > Len(game.manifest_file_list) THEN "move_install" ELSE "move_manifest"

\* move_game_installation up to the creation of the destination's backup folder
move_begin ==
    /\ Idle
    /\ mi' = 0
    /\ blist' = <<>>
    /\ found_all' = TRUE
    /\ matching' = NoEntry
    /\ IF ~assert_path_exists(fs, manifest_backup_folder)
       THEN /\ ExitAtGate("move", "exit1", "none", fs)
            /\ selected' = <<>> /\ dest' = <<>> /\ index' = 0
       ELSE \E selected_games_list \in list_prompt(catalog) :
          /\ selected' = selected_games_list
          /\ IF Len(selected_games_list) = 0
             THEN /\ ExitAtGate("move", "exit0", "empty", fs)
                  /\ dest' = <<>> /\ index' = 0
             ELSE \E destination_path \in DestinationInputs :
                /\ dest' = destination_path
                /\ IF destination_path = games_folder
                   THEN ExitAtGate("move", "exit1", "none", fs) /\ index' = 0
                   ELSE IF ~assert_path_exists(fs, destination_path)
                   THEN ExitAtGate("move", "exit1", "none", fs) /\ index' = 0
                   ELSE \E answer \in yes_no_prompt :
                      IF ~answer
                      THEN ExitAtGate("move", "exit0", "no", fs) /\ index' = 0
                      ELSE /\ op' = "move"
                           /\ opCount' = opCount + 1
                           /\ gate' = "yes"
                           /\ fs0' = fs
                           /\ fs' = try_create_dir(fs, destination_backup_folder(destination_path))
                           /\ index' = 1
                           /\ pc' = "move_game"
                           /\ UNCHANGED <<enumOrder, catalog, status>>

\* the head of the loop over the selected games: the loop ends, the game is
\* skipped because its folder exists at the destination, or the backup folder
\* is scanned for the game
move_next_game ==
    /\ pc = "move_game"
    /\ status = "running"
    /\ IF index > Len(selected)
       THEN Returned(fs)
       ELSE IF Exists(fs, CollisionPath(dest, selected[index]))
       THEN /\ index' = index + 1
            /\ UNCHANGED <<fs, enumOrder, catalog, pc, status, op, opCount, gate, fs0,
                           selected, dest, mi, blist, found_all, matching>>
       ELSE /\ found_all' = TRUE
            /\ blist' = get_launcher_manifest_files(fs, enumOrder, manifest_backup_folder)
            /\ mi' = 1
            /\ pc' = ManifestLoop(selected[index], 1)
            /\ UNCHANGED <<fs, enumOrder, catalog, status, op, opCount, gate, fs0,
                           selected, dest, index, matching>>

\* one game manifest of the inner loop, up to the rewrite of its match
move_manifest ==
    /\ pc = "move_manifest"
    /\ status = "running"
    /\ LET game == selected[index]
           matching_launcher_manifest ==
               get_matching_launcher_manifest(game.manifest_file_list[mi], blist)
       IN  /\ matching' = matching_launcher_manifest
           /\ IF matching_launcher_manifest = NoEntry
              THEN /\ found_all' = FALSE
                   /\ pc' = "move_install"
                   /\ UNCHANGED <<fs, status>>
              ELSE /\ status' = RewriteEnds(fs, matching_launcher_manifest)
                   /\ IF status' = "running"
                      THEN /\ fs' = update_manifest_location_references(
                                        fs, matching_launcher_manifest,
                                        new_game_folder_path(dest, game))
                           /\ pc' = "move_relocate"
                      ELSE UNCHANGED <<fs, pc>>
                   /\ UNCHANGED found_all
    /\ UNCHANGED <<enumOrder, catalog, op, opCount, gate, fs0, selected, dest, index, mi, blist>>

\* the rewritten launcher manifest is moved to the destination's backup folder
move_relocate ==
    /\ pc = "move_relocate"
    /\ status = "running"
    /\ IF MoveRaises(fs, matching.path, destination_backup_folder(dest))
       THEN /\ status' = "crashed"
            /\ UNCHANGED <<fs, pc, mi>>
       ELSE /\ fs' = RelocateManifest(fs, matching, dest)
            /\ mi' = mi + 1
            /\ pc' = ManifestLoop(selected[index], mi + 1)
            /\ UNCHANGED status
    /\ UNCHANGED <<enumOrder, catalog, op, opCount, gate, fs0, selected, dest, index,
                   blist, found_all, matching>>

\* after the inner loop: the installation is moved, or the game is skipped
move_install ==
    /\ pc = "move_install"
    /\ status = "running"
    /\ IF found_all
       THEN IF MoveRaises(fs, selected[index].game_folder.path, dest)
            THEN /\ status' = "crashed"
                 /\ UNCHANGED <<fs, pc, index>>
            ELSE /\ fs' = MoveInstallation(fs, selected[index], dest)
                 /\ index' = index + 1
                 /\ pc' = "move_game"
                 /\ UNCHANGED status
       ELSE /\ index' = index + 1
            /\ pc' = "move_game"
            /\ UNCHANGED <<fs, status>>
    /\ UNCHANGED <<enumOrder, catalog, op, opCount, gate, fs0, selected, dest, mi,
                   blist, found_all, matching>>

(* ------------------------------ relink --------------------------------- *)

\* relink_manifests up to the scan of the backup folder; os.scandir raises
\* when the folder is missing
relink_begin ==
    /\ Idle
    /\ selected' = <<>>
    /\ dest' = <<>>
    /\ found_all' = TRUE
    /\ matching' = NoEntry
    /\ \E answer \in yes_no_prompt :
          IF ~answer
          THEN /\ ExitAtGate("relink", "exit0", "no", fs)
               /\ index' = 0 /\ mi' = 0 /\ blist' = <<>>
          ELSE IF ~Exists(fs, manifest_backup_folder)
          THEN /\ ExitAtGate("relink", "crashed", "yes", fs)
               /\ index' = 0 /\ mi' = 0 /\ blist' = <<>>
          ELSE /\ op' = "relink"
               /\ opCount' = opCount + 1
               /\ gate' = "yes"
               /\ fs0' = fs
               /\ blist' = get_launcher_manifest_files(fs, enumOrder, manifest_backup_folder)
               /\ index' = 1
               /\ mi' = 1
               /\ pc' = "relink_manifest"
               /\ UNCHANGED <<fs, enumOrder, catalog, status>>

\* one game manifest of the nested loops of relink_manifests
relink_manifest ==
    /\ pc = "relink_manifest"
    /\ status = "running"
    /\ IF index > Len(catalog)
       THEN Returned(fs)
       ELSE LET game_data == catalog[index]
                matching_launcher_manifest ==
                    get_matching_launcher_manifest(game_data.manifest_file_list[mi], blist)
                last == mi >= Len(game_data.manifest_file_list)
            IN  /\ matching' = matching_launcher_manifest
                /\ IF matching_launcher_manifest = NoEntry
                   THEN UNCHANGED <<fs, status>>
                   ELSE /\ status' = RewriteEnds(fs, matching_launcher_manifest)
                        /\ IF status' = "running"
                           THEN fs' = update_manifest_location_references(
                                          fs, matching_launcher_manifest,
                                          game_data.game_folder.path)
                           ELSE UNCHANGED fs
                /\ IF status' = "running"
                   THEN /\ index' = IF last THEN index + 1 ELSE index
                        /\ mi' = IF last THEN 1 ELSE mi + 1
                   ELSE UNCHANGED <<index, mi>>
                /\ UNCHANGED <<enumOrder, catalog, pc, op, opCount, gate, fs0,
                               selected, dest, blist, found_all>>

(* -------------------------- the specification -------------------------- *)

Next ==
    \/ backup_manifests
    \/ restore_manifests
    \/ move_begin
    \/ move_next_game
    \/ move_manifest
    \/ move_relocate
    \/ move_install
    \/ relink_begin
    \/ relink_manifest

Spec == Init /\ [][Next]_vars

(* -------------------------- the matcher alone -------------------------- *)

\* the values of the operation locals before any operation
IdleLocals ==
    /\ status = "running"
    /\ op = "none"
    /\ opCount = 0
    /\ gate = "none"
    /\ selected = <<>>
    /\ dest = <<>>
    /\ found_all = TRUE
    /\ matching = NoEntry

\* launcher manifests a scan of the backup folder may list; two share a raw name
MatcherLauncherManifests ==
    {FileDirectory(n, Join(manifest_backup_folder, n)) :
        n \in {<<"GameA", "item">>, <<"GameA", "item2">>, <<"GameB", "item">>, <<"C1", "item">>}}

\* game manifests handed to the matcher
MatcherGameManifests ==
    {FileDirectory(n, Join(Join(Join(games_folder, GameA), GAME_MANIFEST_FOLDER_NAME), n)) :
        n \in {<<"GameA", "manifest">>, <<"GameA", "manifest2">>,
               <<"GameB", "manifest">>, <<"C2", "manifest">>}}

\* the sequences over S of length n at most
ListsUpTo(S, n) == UNION {[1..k -> S] : k \in 0..n}

\* a game manifest and a list of launcher manifests, as the inner loops hold them
MatcherInit ==
    /\ fs = InitialDisk("absent", <<>>, {})
    /\ fs0 = fs
    /\ enumOrder = AllNames
    /\ \E game_manifest \in MatcherGameManifests :
          catalog = <<GameData(FileDirectory(GameA, Join(games_folder, GameA)),
                               FileDirectory(GAME_MANIFEST_FOLDER_NAME,
                                             Join(Join(games_folder, GameA), GAME_MANIFEST_FOLDER_NAME)),
                               <<game_manifest>>)>>
    /\ blist \in ListsUpTo(MatcherLauncherManifests, MaxList)
    /\ index = 1
    /\ mi = 1
    /\ pc = "match"
    /\ IdleLocals

\* the call of get_matching_launcher_manifest in the inner loops
match_manifest ==
    /\ pc = "match"
    /\ matching' = get_matching_launcher_manifest(catalog[index].manifest_file_list[mi], blist)
    /\ pc' = "matched"
    /\ UNCHANGED <<fs, enumOrder, catalog, status, op, opCount, gate, fs0,
                   selected, dest, index, mi, blist, found_all>>

MatcherSpec == MatcherInit /\ [][match_manifest]_vars

(* --------------------------- the scan alone ---------------------------- *)

\* what the games root may hold when the manager is constructed
ScanChildren == {GameA, GameB, GameC, GameD, Tools, <<"readme", "txt">>, MANIFEST_BACKUP_FOLDER_NAME}

\* the entries of the games root for one of its children; `stray` puts in the
\* manifest subfolders of GameC and GameD what is no manifest file: a file of
\* another name, and a folder that has a manifest's name
ScanChildPairs(child, stray) ==
    CASE child = GameA ->
            Install(games_folder, GameA, {<<"GameA", "manifest">>, <<"GameA", "manifest2">>})
      [] child = GameB ->
            Install(games_folder, GameB, {<<"GameB", "manifest">>})
      [] child = GameC ->
            Install(games_folder, GameC,
                    IF stray THEN {<<"notes", "txt">>} ELSE {<<"C1", "manifest">>, <<"notes", "txt">>})
      [] child = GameD ->
            Install(games_folder, GameD, {})
            \cup (IF stray
                  THEN {<<Join(Join(Join(games_folder, GameD), GAME_MANIFEST_FOLDER_NAME),
                               <<"C2", "manifest">>), DirNode>>}
                  ELSE {})
      [] child = Tools ->
            {<<Join(games_folder, Tools), DirNode>>}
      [] child = <<"readme", "txt">> ->
            {<<Join(games_folder, <<"readme", "txt">>), FileNode(<<>>)>>}
      [] child = MANIFEST_BACKUP_FOLDER_NAME ->
            BackupPairs("full", <<>>)

ScanDisk(children, stray) ==
    Disk({<<games_folder, DirNode>>}
         \cup UNION {ScanChildPairs(child, stray) : child \in children})

\* a games root, before the manager is constructed
ScanInit ==
    /\ \E children \in SUBSET ScanChildren, stray \in BOOLEAN : fs = ScanDisk(children, stray)
    /\ fs0 = fs
    /\ enumOrder \in EnumerationOrders
    /\ catalog = <<>>
    /\ blist = <<>>
    /\ index = 0
    /\ mi = 0
    /\ pc = "construct"
    /\ IdleLocals

\* __init__: the catalog is scanned
construct ==
    /\ pc = "construct"
    /\ catalog' = get_game_data_list(fs, enumOrder, games_folder)
    /\ pc' = "idle"
    /\ UNCHANGED <<fs, enumOrder, status, op, opCount, gate, fs0,
                   selected, dest, index, mi, blist, found_all, matching>>

ScanSpec == ScanInit /\ [][construct]_vars

(* -------------------------- the rewrite alone -------------------------- *)

\* the folders a launcher manifest is rewritten to name
RewriteFolders == {Join(ExistingDestination, GameA), Join(games_folder, GameA)}

\* launcher manifests as json.load reads them: the required keys, of a supported
\* version or not, location fields that need not agree with each other, and
\* other keys
RewriteDocuments ==
    LET install == {Join(OldLibrary, GameA), Join(ExistingDestination, GameA)}
        manifests == {Join(fd, GAME_MANIFEST_FOLDER_NAME) : fd \in install}
        stagings == {Join(md, STAGING_FOLDER_NAME) : md \in manifests}
    IN  [FormatVersion : {0, 7}, InstallLocation : install,
         ManifestLocation : manifests, StagingLocation : stagings,
         AppName : {"GameA", "GameB"}]
        \cup
        [FormatVersion : {0, 7}, InstallLocation : install,
         ManifestLocation : manifests, StagingLocation : stagings,
         AppName : {"GameA", "GameB"}, DisplayName : {"Game A"}]

\* the manifest that is rewritten
RewrittenManifest ==
    FileDirectory(<<"GameA", "item">>, Join(manifest_backup_folder, <<"GameA", "item">>))

\* a backup folder with the manifest to rewrite and another one
RewriteDisk(document) ==
    Disk(GamesRootPairs
         \cup {<<manifest_backup_folder, DirNode>>,
               <<RewrittenManifest.path, FileNode(<<document>>)>>,
               <<Join(manifest_backup_folder, <<"GameB", "item">>),
                 FileNode(<<Manifest(0, Join(OldLibrary, GameB), "GameB")>>)>>})

\* a manifest on disk and the folder to rewrite it to; dest holds the
\* updated_game_folder argument and mi counts the rewrites
RewriteInit ==
    /\ \E document \in RewriteDocuments : fs = RewriteDisk(document)
    /\ fs0 = fs
    /\ enumOrder = AllNames
    /\ catalog = <<>>
    /\ blist = <<RewrittenManifest>>
    /\ matching = RewrittenManifest
    /\ dest \in RewriteFolders
    /\ index = 0
    /\ mi = 0
    /\ pc = "rewrite"
    /\ status = "running"
    /\ op = "none"
    /\ opCount = 0
    /\ gate = "none"
    /\ selected = <<>>
    /\ found_all = TRUE

\* update_manifest_location_references on a manifest of a supported version
rewrite ==
    /\ pc = "rewrite"
    /\ status = "running"
    /\ mi < MaxRewrites
    /\ RewriteEnds(fs, matching) = "running"
    /\ fs' = update_manifest_location_references(fs, matching, dest)
    /\ mi' = mi + 1
    /\ UNCHANGED <<enumOrder, catalog, pc, status, op, opCount, gate, fs0,
                   selected, dest, index, blist, found_all, matching>>

\* update_manifest_location_references on a manifest of an unsupported version
rewrite_exits ==
    /\ pc = "rewrite"
    /\ status = "running"
    /\ mi < MaxRewrites
    /\ RewriteEnds(fs, matching) = "exit1"
    /\ status' = "exit1"
    /\ UNCHANGED <<fs, enumOrder, catalog, pc, op, opCount, gate, fs0,
                   selected, dest, index, mi, blist, found_all, matching>>

RewriteSpec == RewriteInit /\ [][rewrite \/ rewrite_exits]_vars

(* ------------------------------ claims --------------------------------- *)

\* the game a running move is processing
MoveAtGame ==
    /\ op = "move"
    /\ status = "running"
    /\ pc \in {"move_manifest", "move_relocate", "move_install"}

\* the launcher manifest the scan `list` matches to manifest k of game
MatchOf(game, k, list) ==
    get_matching_launcher_manifest(game.manifest_file_list[k], list)

\* some manifest file of game has no match in list
HasUnmatched(game, list) ==
    \E k \in 1..Len(game.manifest_file_list) : MatchOf(game, k, list) = NoEntry

\* the launcher manifest at path holds an unsupported version
Unsupported(f, path) ==
    /\ IsFile(f, path)
    /\ f[path].data # <<>>
    /\ f[path].data[1].FormatVersion \notin SUPPORTED_LAUNCHER_MANIFEST_VERSIONS

\* the backup folder as the running operation found it
BackupAtStart == get_launcher_manifest_files(fs0, enumOrder, manifest_backup_folder)

\* in f the game is at the destination with the matches of list relocated and rewritten
Relocated(f, game, list) ==
    /\ ~Exists(f, game.game_folder.path)
    /\ IsDir(f, new_game_folder_path(dest, game))
    /\ \A k \in 1..Len(game.manifest_file_list) :
          LET lm == MatchOf(game, k, list)
              moved == Join(destination_backup_folder(dest), lm.name)
          IN  /\ lm # NoEntry
              /\ ~Exists(f, lm.path)
              /\ IsFile(f, moved)
              /\ f[moved].data # <<>>
              /\ f[moved].data[1].InstallLocation = new_game_folder_path(dest, game)

\* C1: while a move processes a game one of whose manifest files has no match
\* in the backup folder, nothing on disk changes: the game is skipped with its
\* install folder and its matched launcher manifests as they were.
C1_UnmatchedGameUntouched ==
    [][(MoveAtGame /\ HasUnmatched(selected[index], blist)) => fs' = fs]_vars

\* the move is processing a game all of whose manifest files have a supported
\* match, whose install folder is at the source and absent at the destination
C2_Movable ==
    /\ MoveAtGame
    /\ ~HasUnmatched(selected[index], blist)
    /\ \A k \in 1..Len(selected[index].manifest_file_list) :
          ~Unsupported(fs0, MatchOf(selected[index], k, blist).path)
    /\ IsDir(fs, selected[index].game_folder.path)
    /\ ~Exists(fs, new_game_folder_path(dest, selected[index]))

\* C2: a selected game whose manifest files all have a match is moved: the run
\* does not fail on it, and when its processing ends the install folder is at
\* destination/<GameName> and no longer at the source, and every matched
\* launcher manifest is in the destination's backup folder, no longer in the
\* source's, with InstallLocation = destination/<GameName>.
C2_AllMatchedGameIsMoved ==
    [][C2_Movable =>
          /\ status' = "running"
          /\ (pc = "move_install" => Relocated(fs', selected[index], blist))]_vars

\* the launcher manifest the next step hands to update_manifest_location_references
RewriteTarget ==
    IF pc = "move_manifest"
    THEN MatchOf(selected[index], mi, blist)
    ELSE IF pc = "relink_manifest" /\ index <= Len(catalog)
    THEN MatchOf(catalog[index], mi, blist)
    ELSE NoEntry

\* C3: when a move or a relink hands a launcher manifest of an unsupported
\* FormatVersion to the rewrite, the step leaves the whole disk (that file
\* included) unchanged and ends the process with a failure code, and nothing on
\* disk changes once the process has ended.
C3_UnsupportedVersionHalts ==
    [][/\ (status = "running" /\ Unsupported(fs, RewriteTarget.path))
              => (fs' = fs /\ status' = "exit1")
       /\ (status # "running" => fs' = fs)]_vars

\* C3 witness: a move or relink ended on an unsupported launcher manifest, after
\* it had rewritten another one, and the file is as it was
C3_Witness ==
    /\ status = "exit1"
    /\ pc \in {"move_manifest", "relink_manifest"}
    /\ Unsupported(fs, matching.path)
    /\ fs[matching.path] = fs0[matching.path]
    /\ fs # fs0
    /\ op = "relink"

\* a move ended on a launcher manifest of an unsupported version
MoveEndedOnVersion ==
    /\ op = "move"
    /\ status = "exit1"
    /\ pc = "move_manifest"

\* C4: when a move ends on an unsupported FormatVersion, nothing has been moved
\* to the destination by the run: below the destination there is only what was
\* there before, and the backup folder the run created.
C4_NothingMovedBeforeHalt ==
    MoveEndedOnVersion =>
        \A q \in DOMAIN fs :
            IsPrefix(dest, q) => (q \in DOMAIN fs0 \/ q = destination_backup_folder(dest))

\* C5: an operation the operator declined, or a move with an empty selection,
\* has ended with a success code and the disk exactly as it was when the
\* operation began.
C5_DeclineChangesNothing ==
    gate \in {"no", "empty"} => (status = "exit0" /\ fs = fs0)

\* C5 witness: a move declined at its confirmation, with games selected and a
\* valid destination typed
C5_Witness ==
    /\ gate = "no"
    /\ op = "move"
    /\ selected # <<>>
    /\ dest = ExistingDestination
    /\ ~Exists(fs, destination_backup_folder(dest))

\* the step begins the operation `name`
Begins(name) == pc = "idle" /\ opCount' = opCount + 1 /\ op' = name

\* C6: a restore or move begun with the backup folder missing, and a move
\* whose destination is the games root or does not exist, end in that step
\* with a failure code and the disk unchanged.
C6_PreconditionFailureChangesNothing ==
    [][/\ ((Begins("restore") \/ Begins("move")) /\ ~Exists(fs, manifest_backup_folder))
              => (status' = "exit1" /\ fs' = fs)
       /\ (Begins("move") /\ dest' # <<>> /\ (dest' = games_folder \/ ~Exists(fs, dest')))
              => (status' = "exit1" /\ fs' = fs)]_vars

\* C6 witness: a move ended on a destination that does not exist
C6_Witness ==
    /\ op = "move"
    /\ status = "exit1"
    /\ dest # <<>>
    /\ ~Exists(fs, dest)
    /\ fs = fs0

\* C7: while a move is at a selected game whose folder name already exists at
\* the destination, nothing on disk changes and the run goes on: the game is
\* skipped.
C7_ExistingInstallIsSkipped ==
    [][(/\ op = "move"
        /\ status = "running"
        /\ pc \in {"move_game", "move_manifest", "move_relocate", "move_install"}
        /\ index <= Len(selected)
        /\ Exists(fs, new_game_folder_path(dest, selected[index])))
           => (fs' = fs /\ status' = "running")]_vars

\* the running move has moved the install folder of game to the destination
MovedByRun(game) ==
    /\ Exists(fs0, game.game_folder.path)
    /\ ~Exists(fs, game.game_folder.path)
    /\ IsDir(fs, new_game_folder_path(dest, game))

\* C8: in every state of a move, a game whose install folder the run has moved
\* to the destination has each of its manifest files matched, and each matched
\* launcher manifest out of the source backup folder, in the destination's, and
\* rewritten to destination/<GameName>.
C8_InstallMovesLast ==
    (op = "move" /\ pc \in {"move_game", "move_manifest", "move_relocate", "move_install"})
        => \A j \in 1..Len(selected) :
              MovedByRun(selected[j]) => Relocated(fs, selected[j], BackupAtStart)

\* C8 witness: the run has moved a game of two manifest files
C8_Witness ==
    /\ op = "move"
    /\ pc = "move_game"
    /\ \E j \in 1..Len(selected) :
          /\ MovedByRun(selected[j])
          /\ Len(selected[j].manifest_file_list) = 2

\* the launcher manifests in the backup folder of the destination
DestinationManifests ==
    {q \in DOMAIN fs :
        /\ Len(q) = Len(ExistingDestination) + 2
        /\ IsPrefix(destination_backup_folder(ExistingDestination), q)
        /\ IsFile(fs, q)
        /\ NameContains(Basename(q), LAUNCHER_MANIFEST_FILE_TYPE)
        /\ fs[q].data # <<>>}

\* C9: whenever no operation is in progress and the process has not ended,
\* every launcher manifest in the destination's backup folder has an
\* InstallLocation at which a folder exists.
C9_DestinationManifestsPointAtInstalls ==
    (pc = "idle" /\ status = "running")
        => \A q \in DestinationManifests : IsDir(fs, fs[q].data[1].InstallLocation)

\* C10: a relink step that rewrites a launcher manifest leaves it with an
\* InstallLocation at which the game's install folder is on disk, with
\* ManifestLocation = InstallLocation/.egstore and StagingLocation =
\* ManifestLocation/bps.
C10_RelinkPointsAtCurrentInstall ==
    [][(/\ pc = "relink_manifest"
        /\ status = "running"
        /\ index <= Len(catalog)
        /\ status' = "running"
        /\ matching' # NoEntry)
           => LET data == fs'[matching'.path].data[1]
              IN  /\ IsDir(fs', data.InstallLocation)
                  /\ Basename(data.InstallLocation) = catalog[index].game_folder.name
                  /\ data.ManifestLocation =
                         Join(data.InstallLocation, GAME_MANIFEST_FOLDER_NAME)
                  /\ data.StagingLocation =
                         Join(data.ManifestLocation, STAGING_FOLDER_NAME)]_vars

\* the launcher manifests of the launcher root, as a scan of f finds them
LauncherScan(f) == get_launcher_manifest_files(f, enumOrder, launcher_manifest_folder)

\* C11: a confirmed backup returns with the backup folder present; for every
\* manifest file of every catalog game that has a match in the launcher root the
\* backup folder holds a file of the match's name with the match's content,
\* whatever manifest files before it had no match; what was on disk is still
\* there, and nothing outside the backup folder has changed.
C11_BackupCopiesEveryMatch ==
    [][(Begins("backup") /\ gate' = "yes") =>
          /\ status' = "running"
          /\ IsDir(fs', manifest_backup_folder)
          /\ \A i \in 1..Len(catalog) : \A k \in 1..Len(catalog[i].manifest_file_list) :
                LET lm == MatchOf(catalog[i], k, LauncherScan(fs))
                    copy == Join(manifest_backup_folder, lm.name)
                IN  lm # NoEntry => (IsFile(fs', copy) /\ fs'[copy] = fs[lm.path])
          /\ \A q \in DOMAIN fs :
                /\ Exists(fs', q)
                /\ (~IsPrefix(manifest_backup_folder, q) => fs'[q] = fs[q])]_vars

\* C11 witness: the first operation was a confirmed backup; one catalog
\* manifest file has no match in the launcher root, and the match of another
\* is in the backup folder with the launcher's content
C11_Witness ==
    /\ op = "backup"
    /\ gate = "yes"
    /\ opCount = 1
    /\ \E i \in 1..Len(catalog) : HasUnmatched(catalog[i], LauncherScan(fs))
    /\ \E i \in 1..Len(catalog) : \E k \in 1..Len(catalog[i].manifest_file_list) :
          LET lm == MatchOf(catalog[i], k, LauncherScan(fs))
          IN  /\ lm # NoEntry
              /\ IsFile(fs, Join(manifest_backup_folder, lm.name))
              /\ fs[Join(manifest_backup_folder, lm.name)] = fs[lm.path]

\* the valid launcher manifest files directly in folder
ManifestNamesIn(f, folder) ==
    {Basename(q) : q \in {r \in DOMAIN f :
        /\ Len(r) = Len(folder) + 1
        /\ IsPrefix(folder, r)
        /\ IsFile(f, r)
        /\ NameContains(Basename(r), LAUNCHER_MANIFEST_FILE_TYPE)}}

\* C12: a confirmed restore returns with every valid launcher manifest file of
\* the backup folder in the launcher root under its name and with its content;
\* the backup folder, and all else outside the launcher root, is unchanged, and
\* the launcher root has lost no file.
C12_RestoreCopiesEveryBackup ==
    [][(Begins("restore") /\ gate' = "yes") =>
          /\ status' = "running"
          /\ \A n \in ManifestNamesIn(fs, manifest_backup_folder) :
                /\ IsFile(fs', Join(launcher_manifest_folder, n))
                /\ fs'[Join(launcher_manifest_folder, n)] = fs[Join(manifest_backup_folder, n)]
          /\ \A q \in DOMAIN fs :
                /\ Exists(fs', q)
                /\ (~IsPrefix(launcher_manifest_folder, q) => fs'[q] = fs[q])
          /\ \A q \in DOMAIN fs' :
                Exists(fs, q) \/ Basename(q) \in ManifestNamesIn(fs, manifest_backup_folder)]_vars

\* C12 witness: a confirmed restore has replaced a launcher manifest by a
\* backup that had been rewritten
C12_Witness ==
    /\ op = "restore"
    /\ gate = "yes"
    /\ pc = "idle"
    /\ \E n \in ManifestNamesIn(fs, manifest_backup_folder) :
          /\ fs[Join(launcher_manifest_folder, n)] = fs[Join(manifest_backup_folder, n)]
          /\ fs[Join(launcher_manifest_folder, n)].data[1].InstallLocation[1] # OldLibrary[1]

\* the positions of blist whose raw name is that of the game manifest matched
HitPositions ==
    {i \in 1..Len(blist) :
        get_name_raw(blist[i]) = get_name_raw(catalog[index].manifest_file_list[mi])}

\* C13: the matcher returns the element of the list at the least position
\* whose raw name equals the game manifest's, and None exactly when no
\* element has that raw name.
C13_MatchIsFirstOfRawName ==
    pc = "matched" =>
        IF HitPositions = {}
        THEN matching = NoEntry
        ELSE /\ matching # NoEntry
             /\ \E i \in HitPositions :
                   /\ \A j \in HitPositions : i <= j
                   /\ matching = blist[i]

\* C13 witness: the list holds two different launcher manifests of the game
\* manifest's raw name after one of another raw name, and the first is returned
C13_Witness ==
    /\ pc = "matched"
    /\ Cardinality(HitPositions) = 2
    /\ 1 \notin HitPositions
    /\ \E i, j \in HitPositions : i < j /\ blist[i] # blist[j] /\ matching = blist[i]

\* the names of AllNames
Names == {AllNames[i] : i \in 1..Len(AllNames)}

\* folder holds, directly, a file whose name has the game manifest marker
HoldsGameManifest(f, folder) ==
    \E n \in Names :
        IsFile(f, Join(folder, n)) /\ NameContains(n, GAME_MANIFEST_FILE_TYPE)

\* C14: once the catalog is scanned, every record has a manifest file list
\* that is not empty, made of files of the manifest subfolder, and a game folder
\* that is a directory of the games root holding the manifest subfolder; and a
\* child of the games root that is no directory, has no manifest subfolder, has
\* no manifest file in it, or is the backup folder, is in no record.
C14_CatalogHoldsCompleteGamesOnly ==
    (pc = "idle" /\ opCount = 0) =>
        /\ \A i \in 1..Len(catalog) :
              LET g == catalog[i]
              IN  /\ Len(g.manifest_file_list) > 0
                  /\ g.game_folder.path = Join(games_folder, g.game_folder.name)
                  /\ IsDir(fs, g.game_folder.path)
                  /\ g.manifest_folder.path = Join(g.game_folder.path, GAME_MANIFEST_FOLDER_NAME)
                  /\ IsDir(fs, g.manifest_folder.path)
                  /\ \A k \in 1..Len(g.manifest_file_list) :
                        LET m == g.manifest_file_list[k]
                        IN  /\ m.path = Join(g.manifest_folder.path, m.name)
                            /\ IsFile(fs, m.path)
                            /\ NameContains(m.name, GAME_MANIFEST_FILE_TYPE)
        /\ \A n \in Names :
              LET p == Join(games_folder, n)
              IN  (\/ ~IsDir(fs, p)
                   \/ ~Exists(fs, Join(p, GAME_MANIFEST_FOLDER_NAME))
                   \/ ~HoldsGameManifest(fs, Join(p, GAME_MANIFEST_FOLDER_NAME))
                   \/ n = MANIFEST_BACKUP_FOLDER_NAME)
                  => \A i \in 1..Len(catalog) : catalog[i].game_folder.name # n

\* C14 witness: the catalog was scanned, and holds a game, on a games root
\* with the backup folder, a folder without manifest subfolder, a stray file, and
\* two installs whose manifest subfolders hold no manifest file
C14_Witness ==
    /\ pc = "idle"
    /\ opCount = 0
    /\ op = "none"
    /\ Len(catalog) > 0
    /\ IsDir(fs, manifest_backup_folder)
    /\ IsDir(fs, Join(games_folder, Tools))
    /\ IsFile(fs, Join(games_folder, <<"readme", "txt">>))
    /\ IsDir(fs, Join(Join(Join(games_folder, GameD), GAME_MANIFEST_FOLDER_NAME), <<"C2", "manifest">>))
    /\ IsFile(fs, Join(Join(Join(games_folder, GameC), GAME_MANIFEST_FOLDER_NAME), <<"notes", "txt">>))
    /\ ~HoldsGameManifest(fs, Join(Join(games_folder, GameC), GAME_MANIFEST_FOLDER_NAME))

\* the three location fields of the manifest that is rewritten
LocationKeys == {"InstallLocation", "ManifestLocation", "StagingLocation"}

LocationFields(f) ==
    [key \in LocationKeys |-> f[RewrittenManifest.path].data[1][key]]

\* a step that rewrites the manifest
Rewrites == pc = "rewrite" /\ mi' = mi + 1

\* C15: rewriting a manifest again, to the same folder, leaves its
\* InstallLocation, ManifestLocation and StagingLocation as the rewrite before
\* left them.
C15_RewriteTwiceIsRewriteOnce ==
    [][(Rewrites /\ mi >= 1) => LocationFields(fs') = LocationFields(fs)]_vars

\* C15 witness: a manifest was rewritten twice, to a folder none of its
\* three fields named
C15_Witness ==
    /\ pc = "rewrite"
    /\ mi = MaxRewrites
    /\ \A key \in LocationKeys : LocationFields(fs)[key] # LocationFields(fs0)[key]
    /\ LocationFields(fs0).ManifestLocation
          # Join(LocationFields(fs0).InstallLocation, GAME_MANIFEST_FOLDER_NAME)

\* C16: a rewrite leaves every other file and folder as it was, adds and
\* removes none, and in the manifest keeps the keys, and the values of all but
\* InstallLocation, ManifestLocation and StagingLocation.
C16_RewriteChangesLocationsOnly ==
    [][Rewrites =>
          /\ DOMAIN fs' = DOMAIN fs
          /\ \A p \in DOMAIN fs : p # RewrittenManifest.path => fs'[p] = fs[p]
          /\ fs'[RewrittenManifest.path].kind = "file"
          /\ Len(fs'[RewrittenManifest.path].data) = 1
          /\ LET old == fs[RewrittenManifest.path].data[1]
                 new == fs'[RewrittenManifest.path].data[1]
             IN  /\ DOMAIN new = DOMAIN old
                 /\ \A key \in DOMAIN old \ LocationKeys : new[key] = old[key]]_vars

\* C16 witness: a manifest with a key beyond the required ones was
\* rewritten, and the rewrite changed it
C16_Witness ==
    /\ pc = "rewrite"
    /\ mi = 1
    /\ fs # fs0
    /\ "DisplayName" \in DOMAIN fs0[RewrittenManifest.path].data[1]
    /\ IsFile(fs, Join(manifest_backup_folder, <<"GameB", "item">>))

\* C17: whenever a move is about to rewrite or relocate the launcher manifest
\* matched to a manifest file, that launcher manifest is a file of the source
\* backup folder.
C17_MatchIsNeverStale ==
    (op = "move" /\ status = "running")
        => /\ (pc = "move_manifest" /\ RewriteTarget # NoEntry)
                 => IsFile(fs, Join(manifest_backup_folder, RewriteTarget.name))
           /\ (pc = "move_relocate")
                 => IsFile(fs, Join(manifest_backup_folder, matching.name))

\* the move is at a selected game whose folder the destination already holds,
\* or one of whose manifest files has no match, and is not about to rewrite a
\* launcher manifest of an unsupported version
MoveAtFailingGame ==
    /\ op = "move"
    /\ status = "running"
    /\ pc \in {"move_game", "move_manifest", "move_relocate", "move_install"}
    /\ index <= Len(selected)
    /\ \/ Exists(fs, new_game_folder_path(dest, selected[index]))
       \/ (pc # "move_game" /\ HasUnmatched(selected[index], blist))
    /\ ~Unsupported(fs, RewriteTarget.path)

\* C18: a step of a move at a game with a destination collision or a match
\* failure leaves the run going, so that the games selected after it are
\* examined.
C18_FailingGameDoesNotEndRun ==
    [][MoveAtFailingGame => status' = "running"]_vars

\* what f holds at path and below it, by the paths relative to path
Content(f, path) ==
    IF Exists(f, path)
    THEN {<<SubSeq(q, Len(path) + 1, Len(q)), f[q]>> : q \in Subtree(f, path)}
    ELSE {}

\* the roots an install folder may be under: the games root and the destinations
InstallRoots == {games_folder, ExistingDestination, launcher_manifest_folder}

\* the games root as the catalog scan found it
ScannedGamesRoot == Disk(GamesRootPairs)

\* f holds, under root, the install folder of game as the catalog scan found it
InstalledAt(f, root, game) ==
    Content(f, Join(root, game.game_folder.name))
        = Content(ScannedGamesRoot, game.game_folder.path)

\* C19: in every state, the install folder of each catalog game is, whole and
\* with nothing added, under exactly one of the games root and the destination,
\* and under the other there is no folder of its name or an empty one that was
\* there before.
C19_InstallsAreConserved ==
    \A i \in 1..Len(catalog) :
        \E root \in InstallRoots :
            /\ InstalledAt(fs, root, catalog[i])
            /\ \A other \in InstallRoots \ {root} :
                  Content(fs, Join(other, catalog[i].game_folder.name))
                      \in {{}, {<< <<>>, DirNode >>}}

\* C19 witness: in the middle of a move, one catalog game is under the
\* destination and no longer under the games root, and another is under the
\* games root still
C19_Witness ==
    /\ op = "move"
    /\ status = "running"
    /\ pc = "move_manifest"
    /\ \E i, j \in 1..Len(catalog) :
          /\ InstalledAt(fs, ExistingDestination, catalog[i])
          /\ ~Exists(fs, catalog[i].game_folder.path)
          /\ InstalledAt(fs, games_folder, catalog[j])

\* the launcher root and all below it
LauncherRoot(f) == [q \in Subtree(f, launcher_manifest_folder) |-> f[q]]

\* C20: every step of a move, of a relink and of a backup leaves the launcher
\* root and all below it as it was, and every step of a relink leaves every
\* file and folder of the disk in place, a file and a folder as before.
C20_LauncherRootIsLeftAlone ==
    [][op' \in {"move", "relink", "backup"} =>
          /\ LauncherRoot(fs') = LauncherRoot(fs)
          /\ op' = "relink" =>
                /\ DOMAIN fs' = DOMAIN fs
                /\ \A q \in DOMAIN fs : fs'[q].kind = fs[q].kind]_vars

====
